---------------------------- MODULE Spec2Model ----------------------------
(***************************************************************************)
(* A model of the GitHub ingestion core of the repository:                 *)
(*   - GitHubAPIClient.get           (data_ingestion/github_client.py)     *)
(*   - fetch_all_projects            (fetchers/projects_fetcher.py)        *)
(*   - fetch_all_commits             (fetchers/commits_fetcher.py)         *)
(*   - normalize_projects_and_commits (data_processing/normalizer.py)      *)
(*   - main, run_pipeline            (main.py)                             *)
(*   - ProjectIndexer.index_projects (data_processing/indexer.py)          *)
(*   - ElasticsearchClient.bulk_index (data_processing/es_client.py)       *)
(* Each has its own specification over the same variables.                 *)
(*                                                                         *)
(* Conventions.  An optional value (Python None or a value) is a sequence  *)
(* of length at most one: None is <<>>, the value v is <<v>>.  A string is *)
(* a sequence of one-character strings.  Durations are whole seconds.      *)
(***************************************************************************)
EXTENDS Integers, Sequences, FiniteSets, TLC

VARIABLES
    entry,      \* the function under execution: "get", "fetch_all_projects", "fetch_all_commits", ...
    client,     \* GitHubAPIClient fields: max_retries, initial_backoff, max_backoff
    g,          \* the frame of the running GitHubAPIClient.get call
    f,          \* the frame of the running entry function (a collector, the normalizer, main, the indexer)
    disk,       \* the filesystem: the projects directory and the commits directory tree
    net         \* the remote side: requests and failed attempts seen by GitHub, or the Elasticsearch store

vars == <<entry, client, g, f, disk, net>>

None == <<>>
Some(v) == <<v>>

Min(a, b) == IF a <= b THEN a ELSE b

Last(seq) == seq[Len(seq)]

RECURSIVE Pow2(_)
Pow2(n) == IF n = 0 THEN 1 ELSE 2 * Pow2(n - 1)

(***************************************************************************)
(* Bounds of the model.                                                    *)
(***************************************************************************)
MaxRetries == 2

InitialBackoffs == {1, 2}
MaxBackoffs == {3}

(***************************************************************************)
(* HTTP responses.  A response is its status code and the two headers the  *)
(* client reads.  A header is None (absent) or Some(string).               *)
(***************************************************************************)
Str0 == <<"0">>
Str2 == <<"2">>
Str5 == <<"5">>
Str9 == <<"9">>
Str12 == <<"1", "2">>
StrEmpty == <<>>
StrDate == <<"W", "e", "d">>

Resp(status, retry_after, remaining) ==
    [status_code |-> status, retry_after |-> retry_after, remaining |-> remaining]

\* Retry-After values a server sends: absent, empty, delay-seconds, an HTTP-date.
RetryAfterHeaders == {None, Some(StrEmpty), Some(StrDate), Some(Str0), Some(Str2), Some(Str9), Some(Str12)}

ErrorResponses ==
       {Resp(s, None, None) : s \in {401, 404, 500, 502, 504}}
  \cup {Resp(404, Some(Str9), None)}
  \cup {Resp(403, None, r) : r \in {None, Some(Str0), Some(Str5)}}
  \cup {Resp(403, Some(Str2), Some(Str0))}
  \cup {Resp(429, ra, None) : ra \in {None, Some(Str2)}}
  \cup {Resp(503, ra, None) : ra \in RetryAfterHeaders}

OkResponse == Resp(200, None, None)

\* requests.Response.ok: raise_for_status() does not raise, i.e. the status is
\* neither 4xx nor 5xx.
ResponseOk(response) == ~(400 <= response.status_code /\ response.status_code < 600)

(***************************************************************************)
(* JSON bodies as response.json() yields them: a list of records or a      *)
(* non-list value (an object).                                             *)
(***************************************************************************)
JsonList(items) == [type |-> "list", items |-> items]
JsonObject == [type |-> "object", items |-> <<>>]

(***************************************************************************)
(* GitHubAPIClient helpers.                                                *)
(***************************************************************************)
DigitValue(c) ==
    CASE c = "0" -> 0 [] c = "1" -> 1 [] c = "2" -> 2 [] c = "3" -> 3 [] c = "4" -> 4
      [] c = "5" -> 5 [] c = "6" -> 6 [] c = "7" -> 7 [] c = "8" -> 8 [] c = "9" -> 9

IsDigit(c) == c \in {"0", "1", "2", "3", "4", "5", "6", "7", "8", "9"}

RECURSIVE DecimalValue(_)
DecimalValue(s) ==
    IF s = <<>> THEN 0
    ELSE 10 * DecimalValue(SubSeq(s, 1, Len(s) - 1)) + DigitValue(s[Len(s)])

\* float(s) on the header strings of the model: Some(number), or None for ValueError.
ParseFloat(s) ==
    IF s # <<>> /\ \A i \in 1..Len(s) : IsDigit(s[i]) THEN Some(DecimalValue(s)) ELSE None

\* _should_retry(response, error)
_should_retry(response, error) ==
    IF error # None THEN TRUE
    ELSE IF response = None THEN FALSE
    ELSE IF response[1].status_code \in {429, 500, 502, 503, 504} THEN TRUE
    ELSE IF response[1].status_code = 403 /\ response[1].remaining = Some(Str0) THEN TRUE
    ELSE FALSE

\* _get_retry_after(response): `if retry_after:` is false for None and for "".
_get_retry_after(response) ==
    IF response.retry_after # None /\ response.retry_after[1] # <<>>
    THEN ParseFloat(response.retry_after[1])
    ELSE None

\* _compute_backoff(attempt, retry_after)
ComputeBackoffIgnoresHeader(attempt, retry_after) ==
    Min(client.initial_backoff * Pow2(attempt), client.max_backoff)

ComputeBackoffUncapped(attempt, retry_after) ==
    IF retry_after # None THEN Min(retry_after[1], client.max_backoff)
    ELSE client.initial_backoff * Pow2(attempt)

_compute_backoff(attempt, retry_after) ==
    IF retry_after # None THEN Min(retry_after[1], client.max_backoff)
    ELSE Min(client.initial_backoff * Pow2(attempt), client.max_backoff)


(***************************************************************************)
(* Exceptions.                                                             *)
(***************************************************************************)
HTTPError(response) == [type |-> "HTTPError", response |-> Some(response)]
ConnectionError == [type |-> "ConnectionError", response |-> None]
JSONDecodeError == [type |-> "JSONDecodeError", response |-> Some(OkResponse)]
RequestException == [type |-> "RequestException", response |-> None]

\* What one attempt of get met, kept per call for the properties below.
Outcome(kind, response, body) == [kind |-> kind, response |-> response, body |-> body]

(***************************************************************************)
(* GitHubAPIClient.get.  The frame g holds the locals of the running call: *)
(* pc is "idle" (no call), "attempt" (at the top of a loop iteration),     *)
(* "returned" or "raised".  Each action below is one whole iteration of    *)
(* the for loop, its time.sleep included; the last iteration runs the code *)
(* after the loop as well.                                                 *)
(***************************************************************************)
IdleFrame ==
    [pc |-> "idle", attempt |-> 0, last_response |-> None, last_error |-> None,
     ret |-> None, exc |-> None, sleeps |-> <<>>, outcomes |-> <<>>]

\* get(...) is entered: url, last_response = None, last_error = None, attempt = 0.
EnterGet == [IdleFrame EXCEPT !.pc = "attempt"]

Raise(frame, e) == [frame EXCEPT !.pc = "raised", !.exc = Some(e)]

Sleep(frame, backoff) == [frame EXCEPT !.sleeps = Append(@, backoff)]

\* The statements after the for loop.
AfterLoopReturnsDefault(frame) ==
    [frame EXCEPT !.pc = "returned", !.ret = Some(JsonList(<<>>))]

AfterLoopRaisesLastError(frame) ==
    IF frame.last_error # None THEN Raise(frame, frame.last_error[1])
    ELSE IF frame.last_response # None THEN Raise(frame, HTTPError(frame.last_response[1]))
    ELSE Raise(frame, RequestException)

AfterLoop(frame) ==
    IF frame.last_response # None THEN Raise(frame, HTTPError(frame.last_response[1]))
    ELSE IF frame.last_error # None THEN Raise(frame, frame.last_error[1])
    ELSE Raise(frame, RequestException)

\* The end of one iteration of `for attempt in range(self.max_retries + 1)`.
EndIterationOneMore(frame) ==
    IF frame.attempt < client.max_retries + 1
    THEN [frame EXCEPT !.attempt = @ + 1]
    ELSE AfterLoop(frame)

EndIteration(frame) ==
    IF frame.attempt < client.max_retries
    THEN [frame EXCEPT !.attempt = @ + 1]
    ELSE AfterLoop(frame)

\* `except requests.RequestException as e:` at the current attempt.
ExceptBranch(frame, e) ==
    LET fr == [frame EXCEPT !.last_error = Some(e)] IN
    IF ~_should_retry(None, Some(e)) \/ fr.attempt >= client.max_retries
    THEN Raise(fr, e)
    ELSE EndIteration(Sleep(fr, _compute_backoff(fr.attempt, None)))

\* The body of the try block once a non-ok response has arrived.
StatusBranch(frame, response) ==
    LET fr == [frame EXCEPT !.last_response = Some(response)] IN
    IF ~_should_retry(Some(response), None)
    THEN \* response.raise_for_status() raises HTTPError, a RequestException,
         \* inside the try block: the except clause of the same try handles it.
         ExceptBranch(fr, HTTPError(response))
    ELSE LET backoff == _compute_backoff(fr.attempt, _get_retry_after(response)) IN
         IF fr.attempt < client.max_retries
         THEN EndIteration(Sleep(fr, backoff))
         ELSE EndIteration(fr)

\* One request goes out and its outcome is logged.
Issue(frame, kind, response, body) ==
    [frame EXCEPT !.outcomes = Append(@, Outcome(kind, response, body))]

CountRequest(failed) ==
    net' = [net EXCEPT !.requests = @ + 1, !.faults = @ + (IF failed THEN 1 ELSE 0)]

\* The attempt receives an ok response whose body parses: return response.json().
GetOk(body) ==
    /\ g.pc = "attempt"
    /\ g' = [Issue(g, "ok", Some(OkResponse), Some(body)) EXCEPT
                !.last_response = Some(OkResponse), !.pc = "returned", !.ret = Some(body)]
    /\ CountRequest(FALSE)
    /\ UNCHANGED <<entry, client, f, disk>>

\* The attempt receives an ok response whose body is not JSON: response.json()
\* raises.  The exception is a RequestException in requests >= 2.27 (the except
\* clause handles it) and a plain ValueError before (it leaves get at once).
GetBadJson ==
    /\ g.pc = "attempt"
    /\ LET fr == [Issue(g, "badjson", Some(OkResponse), None) EXCEPT !.last_response = Some(OkResponse)] IN
       \/ g' = ExceptBranch(fr, JSONDecodeError)
       \/ g' = Raise(fr, JSONDecodeError)
    /\ CountRequest(TRUE)
    /\ UNCHANGED <<entry, client, f, disk>>

\* The attempt receives a response that is not ok.
GetHttpError(response) ==
    /\ g.pc = "attempt"
    /\ ~ResponseOk(response)
    /\ g' = StatusBranch(Issue(g, "http", Some(response), None), response)
    /\ CountRequest(TRUE)
    /\ UNCHANGED <<entry, client, f, disk>>

\* self._session.get raises (connection failure, timeout).
GetTransportError ==
    /\ g.pc = "attempt"
    /\ g' = ExceptBranch(Issue(g, "transport", None, None), ConnectionError)
    /\ CountRequest(TRUE)
    /\ UNCHANGED <<entry, client, f, disk>>

(***************************************************************************)
(* A single call of get on a client of any configuration.                  *)
(***************************************************************************)
Payloads == {JsonList(<<>>), JsonList(<<"x">>), JsonObject}

NoFrame == [pc |-> "none"]
NoDisk == [projects |-> None, commits |-> None]

InitGet ==
    /\ entry = "get"
    /\ client \in [max_retries : 0..MaxRetries,
                   initial_backoff : InitialBackoffs,
                   max_backoff : MaxBackoffs]
    /\ g = EnterGet
    /\ f = NoFrame
    /\ disk = NoDisk
    /\ net = [requests |-> 0, faults |-> 0]

NextGet ==
    \/ \E body \in Payloads : GetOk(body)
    \/ GetBadJson
    \/ \E response \in ErrorResponses : GetHttpError(response)
    \/ GetTransportError

SpecGet == InitGet /\ [][NextGet]_vars

(***************************************************************************)
(* Bounds of the collectors' model.                                        *)
(***************************************************************************)
PerPage == 2        \* the per_page argument of the collectors
MaxProjects == 3    \* project records in a projects directory
MaxFaults == 2      \* failed attempts the network injects into one run

\* A fake endpoint serves at most this many pages (the last one is short).
MaxPages == (MaxProjects \div PerPage) + 1

(***************************************************************************)
(* Project records as json.load yields them.  A field value is null (also  *)
(* standing for a missing key: dict.get returns None for both), a string,  *)
(* or, for owner, an object with a login field.                            *)
(***************************************************************************)
JNull == [t |-> "null", s |-> <<>>]
JStr(s) == [t |-> "str", s |-> s]
JOwner(login) == [t |-> "obj", s |-> <<>>, login |-> login]
JScalar(v) == [t |-> v.t, s |-> v.s, login |-> JNull]

Project(name, owner) == [name |-> name, owner |-> owner]

RecA == Project(JStr(<<"r">>), JOwner(JStr(<<"u">>)))
RecB == Project(JStr(<<"s">>), JOwner(JStr(<<"u">>)))
RecNoOwner == Project(JStr(<<"r">>), JScalar(JNull))

ProjectRecords == {RecA, RecB, RecNoOwner}

\* Python truthiness of a field value: None and "" are falsy.
Truthy(v) == \/ v.t = "str" /\ v.s # <<>>
             \/ v.t = "obj"

\* _extract_owner_repo(project): Some(<<login, name>>) or None.
_extract_owner_repo(project) ==
    LET name == project.name
        owner_obj == project.owner
    IN  IF ~Truthy(name) \/ ~Truthy(owner_obj) THEN None
        ELSE IF owner_obj.t # "obj" THEN None    \* owner_obj.get raises AttributeError
        ELSE IF ~Truthy(owner_obj.login) THEN None
        ELSE Some(<<owner_obj.login.s, name.s>>)

\* re.sub(r'[<>:"/\\|?*]', "_", f"{owner}__{repo}")
UnsafeChars == {"<", ">", ":", "\"", "/", "\\", "|", "?", "*"}

_safe_dir_name(owner, repo) ==
    LET safe == owner \o <<"_", "_">> \o repo
    IN  [i \in 1..Len(safe) |-> IF safe[i] \in UnsafeChars THEN "_" ELSE safe[i]]

\* f"{owner}/{repo}" and f"/repos/{owner}/{repo}/commits"
RepoKey(owner, repo) == owner \o <<"/">> \o repo
CommitsEndpoint(owner, repo) == <<"repos", owner, repo, "commits">>
ProjectsEndpoint == <<"user", "repos">>

(***************************************************************************)
(* Files.  A page file holds JSON text (the value json.load returns for it) *)
(* or text json.load rejects.  A directory maps page numbers N, standing   *)
(* for the names page_N.json, to files.                                    *)
(***************************************************************************)
JsonFile(value) == [kind |-> "json", value |-> value]
CorruptFile == [kind |-> "corrupt", value |-> JsonObject]

\* json.dump(items, f, indent=2) into a file opened with "w".
Dump(items) == JsonFile(JsonList(items))

EmptyDir == [n \in {} |-> CorruptFile]

WriteFile(dir, n, file) == [m \in (DOMAIN dir) \cup {n} |-> IF m = n THEN file ELSE dir[m]]

\* The characters of page file names, in code point order.
CharCode(c) ==
    CASE c = "." -> 46 [] c = "_" -> 95
      [] c = "0" -> 48 [] c = "1" -> 49 [] c = "2" -> 50 [] c = "3" -> 51 [] c = "4" -> 52
      [] c = "5" -> 53 [] c = "6" -> 54 [] c = "7" -> 55 [] c = "8" -> 56 [] c = "9" -> 57
      [] c = "a" -> 97 [] c = "e" -> 101 [] c = "g" -> 103 [] c = "j" -> 106
      [] c = "n" -> 110 [] c = "o" -> 111 [] c = "p" -> 112 [] c = "s" -> 115

DigitChar(d) == <<"0", "1", "2", "3", "4", "5", "6", "7", "8", "9">>[d + 1]

RECURSIVE Digits(_)
Digits(n) == IF n < 10 THEN <<DigitChar(n)>> ELSE Append(Digits(n \div 10), DigitChar(n % 10))

\* f"page_{page}.json"
PageFileName(n) == <<"p", "a", "g", "e", "_">> \o Digits(n) \o <<".", "j", "s", "o", "n">>

\* Python's str <: lexicographic by code point, a proper prefix first.
RECURSIVE StrLess(_, _)
StrLess(a, b) ==
    IF b = <<>> THEN FALSE
    ELSE IF a = <<>> THEN TRUE
    ELSE IF a[1] # b[1] THEN CharCode(a[1]) < CharCode(b[1])
    ELSE StrLess(Tail(a), Tail(b))

\* sorted(directory.glob("*.json")): the page numbers in file name order.
RECURSIVE SortedByName(_)
SortedByName(names) ==
    IF names = {} THEN <<>>
    ELSE LET first == CHOOSE n \in names :
                        \A m \in names \ {n} : StrLess(PageFileName(n), PageFileName(m))
         IN  <<first>> \o SortedByName(names \ {first})

\* _load_projects_from_dir(projects_dir): the records, or the exception raised.
Loaded(records) == [ok |-> TRUE, records |-> records]
LoadFailed == [ok |-> FALSE, records |-> <<>>]

RECURSIVE LoadFiles(_, _)
LoadFiles(dir, files) ==
    IF files = <<>> THEN Loaded(<<>>)
    ELSE LET file == dir[Head(files)] IN
         IF file.kind # "json" THEN LoadFailed          \* json.JSONDecodeError: logged, re-raised
         ELSE LET rest == LoadFiles(dir, Tail(files)) IN
              IF ~rest.ok THEN LoadFailed
              ELSE IF file.value.type = "list"
                   THEN Loaded(file.value.items \o rest.records)
                   ELSE rest                              \* not a list: warning, skipped

_load_projects_from_dir(dir) == LoadFiles(dir, SortedByName(DOMAIN dir))

\* The dedup loop of fetch_all_commits: unique keys in first-seen order.
RECURSIVE UniqueReposNoDedup(_, _)
UniqueReposNoDedup(projects, seen) ==
    IF projects = <<>> THEN <<>>
    ELSE LET owner_repo == _extract_owner_repo(Head(projects)) IN
         IF owner_repo # None
         THEN <<owner_repo[1]>> \o UniqueReposNoDedup(Tail(projects), seen)
         ELSE UniqueReposNoDedup(Tail(projects), seen)

RECURSIVE UniqueRepos(_, _)
UniqueRepos(projects, seen) ==
    IF projects = <<>> THEN <<>>
    ELSE LET owner_repo == _extract_owner_repo(Head(projects)) IN
         IF owner_repo # None /\ owner_repo[1] \notin seen
         THEN <<owner_repo[1]>> \o UniqueRepos(Tail(projects), seen \cup {owner_repo[1]})
         ELSE UniqueRepos(Tail(projects), seen)

(***************************************************************************)
(* The collectors.  The frame f holds the locals of the running collector; *)
(* pc is "begin", "repo" (top of the per-repository loop), "call" (about   *)
(* to call client.get for f.page), "wait" (inside client.get), "returned"  *)
(* or "raised".  calls, received, writes and started record what the run   *)
(* did: the get calls, the bodies they returned, the page files written    *)
(* and the repositories whose pagination began.                            *)
(***************************************************************************)
Exc(type) == [type |-> type, response |-> None]

BeginFrame ==
    [pc |-> "begin", page |-> 1, all_projects |-> <<>>, projects |-> <<>>,
     unique_repos |-> <<>>, i |-> 1, repo_commits |-> <<>>, result |-> <<>>,
     ret |-> None, exc |-> None, calls |-> <<>>, received |-> <<>>, writes |-> <<>>,
     started |-> <<>>]

\* The function raises e / returns v.
CollectorRaise(frame, e) == [frame EXCEPT !.pc = "raised", !.exc = Some(e)]
CollectorReturn(frame, v) == [frame EXCEPT !.pc = "returned", !.ret = Some(v)]

\* The repository the per-repository loop is at.
Owner == f.unique_repos[f.i][1]
Repo == f.unique_repos[f.i][2]
RepoDir == _safe_dir_name(Owner, Repo)

Endpoint == IF entry = "fetch_all_projects" THEN ProjectsEndpoint ELSE CommitsEndpoint(Owner, Repo)

\* client.get returned `body` for f.page.
Receive(frame, body) ==
    [frame EXCEPT !.received = Append(@, [endpoint |-> Endpoint, page |-> frame.page,
                                          type |-> body.type, n |-> Len(body.items)])]

\* client.get(endpoint, params={"per_page": per_page, "page": page})
CollectorCallGet ==
    /\ f.pc = "call"
    /\ g' = EnterGet
    /\ f' = [f EXCEPT !.pc = "wait",
                      !.calls = Append(@, [endpoint |-> Endpoint, page |-> f.page])]
    /\ UNCHANGED <<entry, client, disk, net>>

(***************************************************************************)
(* fetch_all_projects                                                      *)
(***************************************************************************)
\* output_path.mkdir(parents=True, exist_ok=True); all_projects = []; page = 1
ProjectsBegin ==
    /\ entry = "fetch_all_projects"
    /\ f.pc = "begin"
    /\ disk' = [disk EXCEPT !.projects = IF @ = None THEN Some(EmptyDir) ELSE @]
    /\ f' = [f EXCEPT !.pc = "call"]
    /\ UNCHANGED <<entry, client, g, net>>

\* client.get raised: nothing in fetch_all_projects catches it.
ProjectsGetRaised ==
    /\ entry = "fetch_all_projects"
    /\ f.pc = "wait" /\ g.pc = "raised"
    /\ f' = CollectorRaise(f, g.exc[1])
    /\ g' = IdleFrame
    /\ UNCHANGED <<entry, client, disk, net>>

\* `if not isinstance(projects, list): raise ValueError`
ProjectsNonList ==
    /\ entry = "fetch_all_projects"
    /\ f.pc = "wait" /\ g.pc = "returned"
    /\ g.ret[1].type # "list"
    /\ f' = CollectorRaise(Receive(f, g.ret[1]), Exc("ValueError"))
    /\ g' = IdleFrame
    /\ UNCHANGED <<entry, client, disk, net>>

ProjectsEmptyPagePersisted ==
    /\ entry = "fetch_all_projects"
    /\ f.pc = "wait" /\ g.pc = "returned"
    /\ g.ret[1].type = "list" /\ g.ret[1].items = <<>>
    /\ disk' = [disk EXCEPT !.projects = Some(WriteFile(@[1], f.page, Dump(<<>>)))]
    /\ f' = CollectorReturn([Receive(f, g.ret[1]) EXCEPT
                !.writes = Append(@, [endpoint |-> Endpoint, page |-> f.page])], f.all_projects)
    /\ g' = IdleFrame
    /\ UNCHANGED <<entry, client, net>>

\* `if not projects: break`, then `return all_projects`
ProjectsEmptyPage ==
    /\ entry = "fetch_all_projects"
    /\ f.pc = "wait" /\ g.pc = "returned"
    /\ g.ret[1].type = "list" /\ g.ret[1].items = <<>>
    /\ f' = CollectorReturn(Receive(f, g.ret[1]), f.all_projects)
    /\ g' = IdleFrame
    /\ UNCHANGED <<entry, client, disk, net>>

\* The page is written, appended, and the loop goes on or ends on a short page.
ProjectsAfterSaveNoShortStop(frame, projects) ==
    LET fr == [frame EXCEPT !.all_projects = @ \o projects,
                            !.writes = Append(@, [endpoint |-> Endpoint, page |-> frame.page])]
    IN  [fr EXCEPT !.page = @ + 1, !.pc = "call"]

ProjectsAfterSave(frame, projects) ==
    LET fr == [frame EXCEPT !.all_projects = @ \o projects,
                            !.writes = Append(@, [endpoint |-> Endpoint, page |-> frame.page])]
    IN  IF Len(projects) < PerPage
        THEN CollectorReturn(fr, fr.all_projects)
        ELSE [fr EXCEPT !.page = @ + 1, !.pc = "call"]

ProjectsSavePageUnwritten ==
    /\ entry = "fetch_all_projects"
    /\ f.pc = "wait" /\ g.pc = "returned"
    /\ g.ret[1].type = "list" /\ g.ret[1].items # <<>>
    /\ f' = ProjectsAfterSave(Receive(f, g.ret[1]), g.ret[1].items)
    /\ g' = IdleFrame
    /\ UNCHANGED <<entry, client, disk, net>>

ProjectsSavePage ==
    /\ entry = "fetch_all_projects"
    /\ f.pc = "wait" /\ g.pc = "returned"
    /\ g.ret[1].type = "list" /\ g.ret[1].items # <<>>
    /\ disk' = [disk EXCEPT !.projects = Some(WriteFile(@[1], f.page, Dump(g.ret[1].items)))]
    /\ f' = ProjectsAfterSave(Receive(f, g.ret[1]), g.ret[1].items)
    /\ g' = IdleFrame
    /\ UNCHANGED <<entry, client, net>>

\* open(page_file, "w") or json.dump raises OSError: the file is untouched (open
\* failed) or left truncated (the dump failed part-way).
ProjectsWriteFails ==
    /\ entry = "fetch_all_projects"
    /\ f.pc = "wait" /\ g.pc = "returned"
    /\ g.ret[1].type = "list" /\ g.ret[1].items # <<>>
    /\ \/ UNCHANGED disk
       \/ disk' = [disk EXCEPT !.projects = Some(WriteFile(@[1], f.page, CorruptFile))]
    /\ f' = CollectorRaise(Receive(f, g.ret[1]), Exc("OSError"))
    /\ g' = IdleFrame
    /\ UNCHANGED <<entry, client, net>>

(***************************************************************************)
(* fetch_all_commits                                                       *)
(***************************************************************************)
\* Lines 82-103: the existence check, the load-back, the dedup loop.
CommitsBeginFrame(frame, projects_dir) ==
    IF projects_dir = None THEN CollectorRaise(frame, Exc("FileNotFoundError"))
    ELSE LET loaded == _load_projects_from_dir(projects_dir[1]) IN
         IF ~loaded.ok THEN CollectorRaise(frame, Exc("JSONDecodeError"))
         ELSE [frame EXCEPT !.pc = "repo",
                            !.projects = loaded.records,
                            !.unique_repos = UniqueRepos(loaded.records, {}),
                            !.i = 1]

CommitsBegin ==
    /\ entry = "fetch_all_commits"
    /\ f.pc = "begin"
    /\ f' = CommitsBeginFrame(f, disk.projects)
    /\ UNCHANGED <<entry, client, g, disk, net>>

\* repo_dir.mkdir(parents=True, exist_ok=True)
Mkdir(tree, name) ==
    LET t == IF tree = None THEN [d \in {} |-> EmptyDir] ELSE tree[1] IN
    Some([d \in (DOMAIN t) \cup {name} |-> IF d \in DOMAIN t THEN t[d] ELSE EmptyDir])

\* The head of `for owner, repo in unique_repos:` up to the try block.
CommitsNextRepo ==
    /\ entry = "fetch_all_commits"
    /\ f.pc = "repo"
    /\ f.i <= Len(f.unique_repos)
    /\ disk' = [disk EXCEPT !.commits = Mkdir(@, RepoDir)]
    /\ f' = [f EXCEPT !.pc = "call", !.page = 1, !.repo_commits = <<>>,
                      !.started = Append(@, f.unique_repos[f.i])]
    /\ UNCHANGED <<entry, client, g, net>>

\* The loop is exhausted: `return result`.
CommitsDone ==
    /\ entry = "fetch_all_commits"
    /\ f.pc = "repo"
    /\ f.i > Len(f.unique_repos)
    /\ f' = CollectorReturn(f, f.result)
    /\ UNCHANGED <<entry, client, g, disk, net>>

\* `except Exception: logger.exception(...); raise` around client.get.
CommitsGetRaisedSkipsRepo(frame, e) == [frame EXCEPT !.pc = "repo", !.i = @ + 1]

CommitsGetRaisedFrame(frame, e) == CollectorRaise(frame, e)

CommitsGetRaised ==
    /\ entry = "fetch_all_commits"
    /\ f.pc = "wait" /\ g.pc = "raised"
    /\ f' = CommitsGetRaisedFrame(f, g.exc[1])
    /\ g' = IdleFrame
    /\ UNCHANGED <<entry, client, disk, net>>

\* `if not isinstance(commits, list): raise ValueError`, re-raised by the handler.
CommitsNonList ==
    /\ entry = "fetch_all_commits"
    /\ f.pc = "wait" /\ g.pc = "returned"
    /\ g.ret[1].type # "list"
    /\ f' = CollectorRaise(Receive(f, g.ret[1]), Exc("ValueError"))
    /\ g' = IdleFrame
    /\ UNCHANGED <<entry, client, disk, net>>

\* `result[repo_key] = repo_commits` and on to the next repository.
FinishRepo(frame) ==
    [frame EXCEPT !.result = Append(@, [key |-> RepoKey(Owner, Repo), commits |-> frame.repo_commits]),
                  !.pc = "repo", !.i = @ + 1]

\* `if not commits: break`
CommitsEmptyPage ==
    /\ entry = "fetch_all_commits"
    /\ f.pc = "wait" /\ g.pc = "returned"
    /\ g.ret[1].type = "list" /\ g.ret[1].items = <<>>
    /\ f' = FinishRepo(Receive(f, g.ret[1]))
    /\ g' = IdleFrame
    /\ UNCHANGED <<entry, client, disk, net>>

CommitsAfterSaveSamePage(frame, commits) ==
    LET fr == [frame EXCEPT !.repo_commits = @ \o commits,
                            !.writes = Append(@, [endpoint |-> Endpoint, page |-> frame.page])]
    IN  IF Len(commits) < PerPage
        THEN FinishRepo(fr)
        ELSE [fr EXCEPT !.pc = "call"]

CommitsAfterSave(frame, commits) ==
    LET fr == [frame EXCEPT !.repo_commits = @ \o commits,
                            !.writes = Append(@, [endpoint |-> Endpoint, page |-> frame.page])]
    IN  IF Len(commits) < PerPage
        THEN FinishRepo(fr)
        ELSE [fr EXCEPT !.page = @ + 1, !.pc = "call"]

WriteCommitsFile(tree, name, n, file) ==
    Some([tree[1] EXCEPT ![name] = WriteFile(@, n, file)])

CommitsSavePage ==
    /\ entry = "fetch_all_commits"
    /\ f.pc = "wait" /\ g.pc = "returned"
    /\ g.ret[1].type = "list" /\ g.ret[1].items # <<>>
    /\ disk' = [disk EXCEPT !.commits = WriteCommitsFile(@, RepoDir, f.page, Dump(g.ret[1].items))]
    /\ f' = CommitsAfterSave(Receive(f, g.ret[1]), g.ret[1].items)
    /\ g' = IdleFrame
    /\ UNCHANGED <<entry, client, net>>

CommitsWriteFails ==
    /\ entry = "fetch_all_commits"
    /\ f.pc = "wait" /\ g.pc = "returned"
    /\ g.ret[1].type = "list" /\ g.ret[1].items # <<>>
    /\ \/ UNCHANGED disk
       \/ disk' = [disk EXCEPT !.commits = WriteCommitsFile(@, RepoDir, f.page, CorruptFile)]
    /\ f' = CollectorRaise(Receive(f, g.ret[1]), Exc("OSError"))
    /\ g' = IdleFrame
    /\ UNCHANGED <<entry, client, net>>

(***************************************************************************)
(* The fake GitHub of a collector run: what a successful request for       *)
(* f.page may return.  Page MaxPages is always short, so pagination ends.  *)
(***************************************************************************)
PageLengths == IF f.page < MaxPages THEN 0..PerPage ELSE 0..(PerPage - 1)

RECURSIVE SeqsOfLen(_, _)
SeqsOfLen(S, n) ==
    IF n = 0 THEN {<<>>}
    ELSE {Append(q, x) : q \in SeqsOfLen(S, n - 1), x \in S}

SeqsUpTo(S, n) == UNION {SeqsOfLen(S, k) : k \in 0..n}

\* The commit records of one page: told apart by repository, page and position.
CommitsPage(owner, repo, page, n) ==
    [k \in 1..n |-> [sha |-> <<owner, repo, page, k>>]]

ServerBodies ==
    IF entry = "fetch_all_projects"
    THEN {JsonList(p) : p \in UNION {SeqsOfLen(ProjectRecords, n) : n \in PageLengths}}
            \cup {JsonObject}
    ELSE {JsonList(CommitsPage(Owner, Repo, f.page, n)) : n \in PageLengths}
            \cup {JsonObject}

\* The failures the network injects into a collector run.
CollectorErrorResponses == {Resp(503, None, None), Resp(404, None, None)}

(***************************************************************************)
(* Projects directories a commit collection may find: what an earlier      *)
(* fetch_all_projects wrote for some record list, possibly with one file   *)
(* damaged since (unparseable, or holding a JSON value that is no list).   *)
(***************************************************************************)
PageSlice(records, n) ==
    SubSeq(records, (n - 1) * PerPage + 1, Min(n * PerPage, Len(records)))

WrittenDir(records) ==
    [n \in 1..((Len(records) + PerPage - 1) \div PerPage) |-> Dump(PageSlice(records, n))]

Damaged(dir) ==
    {dir} \cup {[dir EXCEPT ![n] = file] : n \in DOMAIN dir,
                                           file \in {CorruptFile, JsonFile(JsonObject)}}

ProjectsDirs == UNION {Damaged(WrittenDir(records)) : records \in SeqsUpTo(ProjectRecords, MaxProjects)}

Init ==
    /\ entry \in {"fetch_all_projects", "fetch_all_commits"}
    /\ client \in [max_retries : 0..MaxRetries, initial_backoff : {1}, max_backoff : MaxBackoffs]
    /\ g = IdleFrame
    /\ f = BeginFrame
    /\ disk \in IF entry = "fetch_all_projects"
                THEN {[projects |-> p, commits |-> None] : p \in {None, Some(EmptyDir)}}
                ELSE {[projects |-> p, commits |-> None] :
                        p \in {None} \cup {Some(d) : d \in ProjectsDirs}}
    /\ net = [requests |-> 0, faults |-> 0]

Next ==
    \/ ProjectsBegin
    \/ CollectorCallGet
    \/ f.pc = "wait" /\ \E body \in ServerBodies : GetOk(body)
    \/ f.pc = "wait" /\ net.faults < MaxFaults
                     /\ \E response \in CollectorErrorResponses : GetHttpError(response)
    \/ f.pc = "wait" /\ net.faults < MaxFaults /\ GetTransportError
    \/ ProjectsGetRaised
    \/ ProjectsNonList
    \/ ProjectsEmptyPage
    \/ ProjectsSavePage
    \/ ProjectsWriteFails
    \/ CommitsBegin
    \/ CommitsNextRepo
    \/ CommitsDone
    \/ CommitsGetRaised
    \/ CommitsNonList
    \/ CommitsEmptyPage
    \/ CommitsSavePage
    \/ CommitsWriteFails

Spec == Init /\ [][Next]_vars

(***************************************************************************)
(* Properties of GitHubAPIClient.get, stated over one call (SpecGet).      *)
(***************************************************************************)
Finished == g.pc \in {"returned", "raised"}

\* The retry rule as the specification words it.
RetryableStatus(response) ==
    \/ response.status_code \in {429, 500, 502, 503, 504}
    \/ response.status_code = 403 /\ response.remaining = Some(<<"0">>)

TerminalOutcome(o) == o.kind = "http" /\ ~RetryableStatus(o.response[1])

RetryableOutcome(o) ==
    \/ o.kind = "transport"
    \/ o.kind = "http" /\ RetryableStatus(o.response[1])

\* The number a Retry-After header of the model denotes, or None.
HeaderNumber(h) ==
    CASE h = Some(<<"0">>) -> Some(0)
      [] h = Some(<<"2">>) -> Some(2)
      [] h = Some(<<"9">>) -> Some(9)
      [] h = Some(<<"1", "2">>) -> Some(12)
      [] OTHER -> None

\* The exponential delay after the attempt of 0-based index i.
Exponential(i) == Min(client.initial_backoff * Pow2(i), client.max_backoff)

\* C1: an attempt that receives a terminal status (non-2xx, not 429/500/502/503/504,
\* not 403 with X-RateLimit-Remaining "0") makes get raise on that attempt: it is
\* the last request of the call and no sleep follows it.
C1_TerminalStatusRaisesAtOnce ==
    \A i \in 1..Len(g.outcomes) :
        TerminalOutcome(g.outcomes[i]) =>
            /\ g.pc = "raised"
            /\ i = Len(g.outcomes)
            /\ Len(g.sleeps) <= i - 1

\* C2: get issues at most max_retries + 1 requests; when every attempt ended in a
\* retryable failure it raises after exactly max_retries + 1 requests and exactly
\* max_retries sleeps.
C2_AttemptsCapped ==
    /\ Len(g.outcomes) <= client.max_retries + 1
    /\ net.requests = Len(g.outcomes)
    /\ (Finished /\ \A i \in 1..Len(g.outcomes) : RetryableOutcome(g.outcomes[i])) =>
            /\ g.pc = "raised"
            /\ Len(g.outcomes) = client.max_retries + 1
            /\ Len(g.sleeps) = client.max_retries

C2_Witness ==
    /\ g.pc = "raised"
    /\ client.max_retries = 2
    /\ Len(g.sleeps) = 2
    /\ g.outcomes[1].kind = "http" /\ g.outcomes[2].kind = "transport"
    /\ g.outcomes[3].kind = "http"
    /\ \A i \in 1..3 : RetryableOutcome(g.outcomes[i])

\* C3: if the first j attempts fail with a retryable status without a Retry-After
\* header, or with a transport error, and attempt j+1 succeeds, get returns that
\* response's payload after exactly j sleeps, the i-th (from 0) of
\* min(initial_backoff * 2^i, max_backoff).
PlainRetryable(o) ==
    \/ o.kind = "transport"
    \/ o.kind = "http" /\ RetryableStatus(o.response[1]) /\ o.response[1].retry_after = None

C3_ExponentialThenPayload ==
    LET n == Len(g.outcomes) IN
    (/\ n >= 1
     /\ Last(g.outcomes).kind = "ok"
     /\ \A i \in 1..(n - 1) : PlainRetryable(g.outcomes[i]))
    => /\ g.pc = "returned"
       /\ g.ret = Last(g.outcomes).body
       /\ Len(g.sleeps) = n - 1
       /\ \A i \in 1..(n - 1) : g.sleeps[i] = Exponential(i - 1)

C3_Witness ==
    /\ g.pc = "returned"
    /\ Len(g.outcomes) = 3
    /\ g.outcomes[1].kind = "http" /\ g.outcomes[1].response[1].status_code = 503
    /\ g.outcomes[2].kind = "http" /\ g.outcomes[2].response[1].status_code = 503
    /\ PlainRetryable(g.outcomes[1]) /\ PlainRetryable(g.outcomes[2])
    /\ g.ret = Some(JsonList(<<"x">>))
    /\ g.sleeps = <<2, 3>>

\* C4: the sleep that follows a retryable response with a numeric Retry-After r is
\* min(r, max_backoff) whatever the attempt index; with the header absent or not
\* numeric it is min(initial_backoff * 2^attempt, max_backoff).
C4_RetryAfterHonoured ==
    \A i \in 1..Len(g.sleeps) :
        LET o == g.outcomes[i] IN
        (o.kind = "http" /\ RetryableStatus(o.response[1])) =>
            LET r == HeaderNumber(o.response[1].retry_after) IN
            IF r # None
            THEN g.sleeps[i] = Min(r[1], client.max_backoff)
            ELSE g.sleeps[i] = Exponential(i - 1)

C4_Witness ==
    /\ Len(g.sleeps) = 2
    /\ g.outcomes[1].response = Some(Resp(503, Some(<<"W", "e", "d">>), None))
    /\ g.outcomes[2].response = Some(Resp(503, Some(<<"2">>), None))
    /\ g.sleeps = <<1, 2>>
    /\ client.initial_backoff = 1

\* C5: get returns only when its final attempt received a successful response,
\* and then the value is that response's parsed body; otherwise it raises and
\* hands no value back.
C5_ReturnsOnlyParsedBody ==
    /\ g.pc = "returned" =>
            /\ Len(g.outcomes) >= 1
            /\ Last(g.outcomes).kind = "ok"
            /\ g.ret = Last(g.outcomes).body
            /\ g.exc = None
    /\ (Finished /\ Last(g.outcomes).kind # "ok") => (g.pc = "raised" /\ g.exc # None)
    /\ g.pc # "returned" => g.ret = None

C5_Witness ==
    /\ g.pc = "returned"
    /\ Len(g.outcomes) = 2
    /\ g.outcomes[1].kind = "http"
    /\ g.ret = Some(JsonObject)

(***************************************************************************)
(* Properties of the collectors, stated over one run of fetch_all_projects *)
(* or fetch_all_commits (Spec).  An endpoint stands for the entity it      *)
(* lists: the projects, or one repository's commits.                       *)
(***************************************************************************)
Iota(k) == [j \in 1..k |-> j]

Range(seq) == {seq[j] : j \in DOMAIN seq}

IsPrefix(a, b) == Len(a) <= Len(b) /\ a = SubSeq(b, 1, Len(a))

EndpointsCalled == {f.calls[j].endpoint : j \in DOMAIN f.calls}

\* The page numbers requested from E, in order.
PagesCalled(E) ==
    LET ForE(c) == c.endpoint = E
        q == SelectSeq(f.calls, ForE)
    IN  [j \in 1..Len(q) |-> q[j].page]

\* The lengths of the lists E returned, in order.
Lengths(E) ==
    LET ForE(r) == r.endpoint = E /\ r.type = "list"
        q == SelectSeq(f.received, ForE)
    IN  [j \in 1..Len(q) |-> q[j].n]

\* The page numbers of the files written for E, in order.
PagesWritten(E) ==
    LET ForE(w) == w.endpoint = E
        q == SelectSeq(f.writes, ForE)
    IN  [j \in 1..Len(q) |-> q[j].page]

\* The directory that holds E's page files.
DirOf(E) ==
    IF E = ProjectsEndpoint THEN disk.projects[1]
    ELSE disk.commits[1][_safe_dir_name(E[2], E[3])]

\* The pagination of E ran to its end without an error.
Completed(E) ==
    IF E = ProjectsEndpoint THEN f.pc = "returned"
    ELSE \E j \in DOMAIN f.result : f.result[j].key = RepoKey(E[2], E[3])

\* The list the collector hands back for E.
Collected(E) ==
    IF E = ProjectsEndpoint THEN f.ret[1]
    ELSE LET j == CHOOSE j \in DOMAIN f.result : f.result[j].key = RepoKey(E[2], E[3])
         IN  f.result[j].commits

\* Full pages, then one short page: the shape of a finished pagination.
FullThenShort(R) ==
    /\ Len(R) >= 1
    /\ \A j \in 1..(Len(R) - 1) : R[j] = PerPage
    /\ Last(R) < PerPage

\* Without failed attempts every get call is one request.
OneRequestPerCall == (f.pc = "returned" /\ net.faults = 0) => net.requests = Len(f.calls)

\* C6 as stated: for an endpoint returning page_size items on pages 1..k-1 and
\* m < page_size items on page k, the run requests pages 1..k in order and
\* persists exactly k page files.
C6_Original ==
    \A E \in EndpointsCalled :
        (Completed(E) /\ FullThenShort(Lengths(E))) =>
            /\ PagesCalled(E) = Iota(Len(Lengths(E)))
            /\ PagesWritten(E) = Iota(Len(Lengths(E)))

\* C6 as amended: a finished pagination received page_size items on pages 1..k-1
\* and m < page_size items on page k and requested exactly the pages 1..k in
\* order; when 0 < m it persisted exactly the k page files 1..k.
C6_ShortPageEndsPagination ==
    /\ \A E \in EndpointsCalled :
          Completed(E) =>
             LET R == Lengths(E)
                 k == Len(R)
             IN  /\ FullThenShort(R)
                 /\ PagesCalled(E) = Iota(k)
                 /\ Last(R) > 0 => /\ PagesWritten(E) = Iota(k)
                                   /\ DOMAIN DirOf(E) = 1..k
    /\ OneRequestPerCall

C6_Witness ==
    /\ entry = "fetch_all_commits"
    /\ f.pc = "returned"
    /\ net.faults = 0
    /\ \E E \in EndpointsCalled :
          /\ Lengths(E) = <<PerPage, 1>>
          /\ PagesWritten(E) = <<1, 2>>

\* C7: an empty page ends pagination and is never persisted: an empty page 1
\* means one request, an empty result and no page file; k full pages followed by
\* an empty page k+1 mean k+1 requests and k page files.
C7_EmptyPageEndsPagination ==
    /\ \A E \in EndpointsCalled :
          LET R == Lengths(E)
              n == Len(R)
          IN  \A j \in 1..n :
                R[j] = 0 =>
                    /\ j = n
                    /\ Completed(E)
                    /\ \A i \in 1..(n - 1) : R[i] = PerPage
                    /\ PagesCalled(E) = Iota(n)
                    /\ PagesWritten(E) = Iota(n - 1)
                    /\ DOMAIN DirOf(E) = 1..(n - 1)
                    /\ n = 1 => Collected(E) = <<>>
    /\ OneRequestPerCall

C7_Witness ==
    /\ entry = "fetch_all_projects"
    /\ f.pc = "returned"
    /\ net.requests = 2
    /\ Lengths(ProjectsEndpoint) = <<PerPage, 0>>
    /\ DOMAIN disk.projects[1] = {1}

\* A project record with a non-empty name and a non-empty owner.login.
WellFormed(rec) ==
    /\ rec.name.t = "str" /\ rec.name.s # <<>>
    /\ rec.owner.t = "obj"
    /\ rec.owner.login.t = "str" /\ rec.owner.login.s # <<>>

Pair(rec) == <<rec.owner.login.s, rec.name.s>>

\* The records of the page files of a directory that hold lists, in page order.
RECURSIVE ListRecords(_, _)
ListRecords(dir, n) ==
    IF n = 0 THEN <<>>
    ELSE ListRecords(dir, n - 1) \o
            (IF n \in DOMAIN dir /\ dir[n].kind = "json" /\ dir[n].value.type = "list"
             THEN dir[n].value.items ELSE <<>>)

DirRecords(dir) ==
    ListRecords(dir, IF DOMAIN dir = {} THEN 0
                     ELSE CHOOSE n \in DOMAIN dir : \A m \in DOMAIN dir : m <= n)

\* The distinct pairs of the well-formed records, each at its first occurrence.
FirstSeen(records) ==
    LET Keep(j) == /\ WellFormed(records[j])
                   /\ \A i \in 1..(j - 1) :
                        ~(WellFormed(records[i]) /\ Pair(records[i]) = Pair(records[j]))
        q == SelectSeq(Iota(Len(records)), Keep)
    IN  [m \in 1..Len(q) |-> Pair(records[q[m]])]

FirstPageCalls(key) ==
    Cardinality({j \in DOMAIN f.calls :
                    f.calls[j] = [endpoint |-> CommitsEndpoint(key[1], key[2]), page |-> 1]})

\* C8: within one fetch_all_commits run the commit pagination starts exactly once
\* for each distinct (owner.login, name) pair of a well-formed record, in
\* first-seen order, however often the pair is repeated across the page files.
C8_EachPairOnceInFirstSeenOrder ==
    (entry = "fetch_all_commits" /\ f.pc # "begin" /\ disk.projects # None) =>
        LET expected == FirstSeen(DirRecords(disk.projects[1])) IN
        /\ IsPrefix(f.started, expected)
        /\ \A j \in DOMAIN f.calls :
              \E key \in Range(f.started) : f.calls[j].endpoint = CommitsEndpoint(key[1], key[2])
        /\ \A key \in Range(expected) : FirstPageCalls(key) <= 1
        /\ f.pc = "returned" =>
              /\ f.started = expected
              /\ \A key \in Range(expected) : FirstPageCalls(key) = 1

C8_Witness ==
    /\ entry = "fetch_all_commits"
    /\ f.pc = "returned"
    /\ DOMAIN disk.projects[1] = {1, 2}
    /\ f.projects = <<RecB, RecA, RecB>>
    /\ f.started = << <<<<"u">>, <<"s">>>>, <<<<"u">>, <<"r">>>> >>

\* Every page file the run wrote is on disk, complete.
WritesOnDisk ==
    \A j \in DOMAIN f.writes :
        LET w == f.writes[j] IN
        /\ w.page \in DOMAIN DirOf(w.endpoint)
        /\ DirOf(w.endpoint)[w.page].kind = "json"
        /\ DirOf(w.endpoint)[w.page].value.type = "list"

\* The state of a commit collection that failed inside the per-repository loop.
C9_Aborted ==
    (entry = "fetch_all_commits" /\ f.pc = "raised" /\ f.started # <<>>) =>
        /\ f.ret = None /\ f.exc # None
        /\ f.started = SubSeq(f.unique_repos, 1, f.i)
        /\ \A j \in DOMAIN f.calls :
              \E m \in 1..f.i :
                 f.calls[j].endpoint = CommitsEndpoint(f.unique_repos[m][1], f.unique_repos[m][2])
        /\ WritesOnDisk

\* A mapping is returned only when every repository was fetched to its end.
C9_NoPartialSuccess ==
    (entry = "fetch_all_commits" /\ f.pc \in {"repo", "call", "wait", "returned"}) =>
        /\ Len(f.result) = (IF f.pc = "returned" THEN Len(f.unique_repos) ELSE f.i - 1)
        /\ \A j \in DOMAIN f.result :
              f.result[j].key = RepoKey(f.unique_repos[j][1], f.unique_repos[j][2])

\* The page client.get returned is on disk after the step.
PagePersisted ==
    /\ disk'.commits # None
    /\ RepoDir \in DOMAIN disk'.commits[1]
    /\ f.page \in DOMAIN disk'.commits[1][RepoDir]
    /\ disk'.commits[1][RepoDir][f.page] = JsonFile(JsonList(g.ret[1].items))

\* What a step of a commit collection does with a failure.
C9_Step ==
    entry = "fetch_all_commits" =>
        /\ (f.pc = "wait" /\ g.pc = "raised") => (f'.pc = "raised" /\ f'.exc = g.exc)
        /\ (f.pc = "wait" /\ g.pc = "returned" /\ g.ret[1].type # "list") => f'.pc = "raised"
        /\ (f.pc = "wait" /\ g.pc = "returned" /\ g.ret[1].type = "list"
                /\ g.ret[1].items # <<>> /\ ~PagePersisted) => f'.pc = "raised"
        /\ f.pc = "raised" => (net'.requests = net.requests /\ f' = f /\ disk' = disk)

\* C9: an unrecoverable failure while fetching one repository's commits (exhausted
\* retries, a terminal API error, a non-list body, a failed page write) leaves
\* fetch_all_commits by the exception, no mapping is returned, no request goes
\* out for any later repository, and the page files written so far stay on disk.
C9_FailFast == [](C9_Aborted /\ C9_NoPartialSuccess) /\ [][C9_Step]_vars

C9_Witness ==
    /\ entry = "fetch_all_commits"
    /\ f.pc = "raised"
    /\ Len(f.unique_repos) = 2 /\ f.i = 1
    /\ f.exc = Some(HTTPError(Resp(503, None, None)))
    /\ PagesWritten(CommitsEndpoint(<<"u">>, <<"r">>)) = <<1>>
    /\ g.pc = "idle"

\* C10: a projects page file that fails to parse as JSON is skipped during the
\* load-back: the records of the other files are loaded and the commit collection
\* goes on instead of aborting.
C10_CorruptFileSkipped ==
    (entry = "fetch_all_commits" /\ f.pc # "begin" /\ disk.projects # None) =>
        /\ f.projects = DirRecords(disk.projects[1])
        /\ ~(f.pc = "raised" /\ f.exc = Some(Exc("JSONDecodeError")))

(***************************************************************************)
(* normalize_projects_and_commits (data_processing/normalizer.py).         *)
(*                                                                         *)
(* project.get("owner", {}) tells a missing key (the default {} comes      *)
(* back) from a key holding null (None comes back), so the records of this *)
(* part carry JMissing for an absent key.  A normalized record is the      *)
(* project record with a commits field: None while the dict has no         *)
(* "commits" key, Some(list) once the loop has set it.                     *)
(***************************************************************************)
JMissing == [t |-> "missing", s |-> <<>>]

RecUnsafe == Project(JStr(<<":">>), JOwner(JStr(<<"u">>)))
RecOwnerMissing == Project(JStr(<<"r">>), JScalar(JMissing))
RecNameEmpty == Project(JStr(<<>>), JOwner(JStr(<<"u">>)))

\* A JSON object that is no project record: every key the code reads is absent.
ObjectRecord == Project(JMissing, JScalar(JMissing))

NormalizerRecords == {RecA, RecUnsafe, RecNoOwner, RecOwnerMissing, RecNameEmpty}

Unjoined(project) == [name |-> project.name, owner |-> project.owner, commits |-> None]

\* load_all_jsons_from_dir / load_all_jsons_from_folder: lists are extended,
\* any other JSON value is appended, a file that fails to load is reported
\* and skipped.  `element` says what an appended non-list value is read as.
RECURSIVE LoadAllJsonsAppending(_, _, _)
LoadAllJsonsAppending(dir, files, element) ==
    IF files = <<>> THEN <<>>
    ELSE LET file == dir[Head(files)]
             rest == LoadAllJsonsAppending(dir, Tail(files), element)
         IN  IF file.kind # "json" THEN rest
             ELSE <<element>> \o rest

RECURSIVE LoadAllJsons(_, _, _)
LoadAllJsons(dir, files, element) ==
    IF files = <<>> THEN <<>>
    ELSE LET file == dir[Head(files)]
             rest == LoadAllJsons(dir, Tail(files), element)
         IN  IF file.kind # "json" THEN rest
             ELSE IF file.value.type = "list" THEN file.value.items \o rest
             ELSE <<element>> \o rest

\* A directory that does not exist globs to nothing.
load_all_jsons_from_dir(directory) ==
    IF directory = None THEN <<>>
    ELSE LoadAllJsons(directory[1], SortedByName(DOMAIN directory[1]), ObjectRecord)

load_all_jsons_from_folder(folder) ==
    LoadAllJsons(folder, SortedByName(DOMAIN folder), JsonObject)

\* f"{login}__{name}"
FolderName(login, name) == login \o <<"_", "_">> \o name

\* commit_folder.exists() and commit_folder.is_dir()
FolderExists(tree, folder_name) == tree # None /\ folder_name \in DOMAIN tree[1]

NormalizerFrame ==
    [pc |-> "begin", projects_list |-> <<>>, i |-> 1, lookups |-> <<>>,
     ret |-> None, exc |-> None]

\* projects_list = load_all_jsons_from_dir(projects_dir)
NormalizeLoad ==
    /\ entry = "normalize_projects_and_commits"
    /\ f.pc = "begin"
    /\ f' = [f EXCEPT !.pc = "loop",
                      !.projects_list = LET loaded == load_all_jsons_from_dir(disk.projects)
                                        IN  [k \in 1..Len(loaded) |-> Unjoined(loaded[k])]]
    /\ UNCHANGED <<entry, client, g, disk, net>>

\* One iteration of `for project in projects_list:` on the frame.
NormalizeProject(frame, tree) ==
    LET project == frame.projects_list[frame.i]
        name == project.name
        owner == project.owner
        next == [frame EXCEPT !.i = @ + 1]
    IN  IF owner.t \in {"null", "str"}
        THEN CollectorRaise(frame, Exc("AttributeError"))     \* owner.get on None or on a str
        ELSE LET login == IF owner.t = "obj" THEN owner.login ELSE JNull IN
             IF ~Truthy(name) \/ ~Truthy(login)
             THEN next                                         \* continue
             ELSE LET folder_name == FolderName(login.s, name.s)
                      commits == IF FolderExists(tree, folder_name)
                                 THEN load_all_jsons_from_folder(tree[1][folder_name])
                                 ELSE <<>>
                  IN  [next EXCEPT !.projects_list[frame.i].commits = Some(commits),
                                   !.lookups = Append(@, [login |-> login.s, name |-> name.s,
                                                          folder_name |-> folder_name])]

NormalizeStep ==
    /\ entry = "normalize_projects_and_commits"
    /\ f.pc = "loop"
    /\ f.i <= Len(f.projects_list)
    /\ f' = NormalizeProject(f, disk.commits)
    /\ UNCHANGED <<entry, client, g, disk, net>>

\* return projects_list
NormalizeReturn ==
    /\ entry = "normalize_projects_and_commits"
    /\ f.pc = "loop"
    /\ f.i > Len(f.projects_list)
    /\ f' = CollectorReturn(f, f.projects_list)
    /\ UNCHANGED <<entry, client, g, disk, net>>

(***************************************************************************)
(* The raw stores a normalization may find: the projects directory an      *)
(* earlier fetch_all_projects wrote for some record list (one file         *)
(* possibly damaged since), and the commits tree an earlier                *)
(* fetch_all_commits left for those records: a directory, named by         *)
(* _safe_dir_name, for each of the first k unique repositories, holding    *)
(* the pages collected for it.                                             *)
(***************************************************************************)
MaxRecords == 2         \* project records in the projects directory of a normalization
MaxCommitPages == 2     \* page files in one repository's commits directory

CollectedDir(owner, repo, pages) ==
    [p \in 1..pages |-> Dump(CommitsPage(owner, repo, p, IF p < pages THEN PerPage ELSE 1))]

CollectedDirs(owner, repo) ==
    UNION {{CollectedDir(owner, repo, pages)} \cup
           {[CollectedDir(owner, repo, pages) EXCEPT ![p] = CorruptFile] : p \in 1..pages} :
           pages \in 0..MaxCommitPages}

RECURSIVE CollectedTrees(_)
CollectedTrees(unique_repos) ==
    IF unique_repos = <<>> THEN {[d \in {} |-> EmptyDir]}
    ELSE LET owner == Last(unique_repos)[1]
             repo == Last(unique_repos)[2]
             name == _safe_dir_name(owner, repo)
         IN  {[d \in (DOMAIN tree) \cup {name} |-> IF d = name THEN dir ELSE tree[d]] :
                 tree \in CollectedTrees(SubSeq(unique_repos, 1, Len(unique_repos) - 1)),
                 dir \in CollectedDirs(owner, repo)}

CommitsTrees(records) ==
    LET unique_repos == UniqueRepos(records, {}) IN
    {None} \cup UNION {{Some(tree) : tree \in CollectedTrees(SubSeq(unique_repos, 1, k))} :
                        k \in 0..Len(unique_repos)}

RawStores ==
    {[projects |-> None, commits |-> None]} \cup
    UNION {{[projects |-> Some(dir), commits |-> tree] :
                dir \in Damaged(WrittenDir(records)), tree \in CommitsTrees(records)} :
           records \in SeqsUpTo(NormalizerRecords, MaxRecords)}

NoClient == [max_retries |-> 0, initial_backoff |-> 1, max_backoff |-> 1]
NoNet == [requests |-> 0, faults |-> 0]

InitNormalize ==
    /\ entry = "normalize_projects_and_commits"
    /\ client = NoClient
    /\ g = IdleFrame
    /\ f = NormalizerFrame
    /\ disk \in RawStores
    /\ net = NoNet

NextNormalize ==
    \/ NormalizeLoad
    \/ NormalizeStep
    \/ NormalizeReturn

SpecNormalize == InitNormalize /\ [][NextNormalize]_vars

(***************************************************************************)
(* Properties of normalize_projects_and_commits, checked under             *)
(* SpecNormalize.                                                          *)
(***************************************************************************)
\* The project records the projects directory holds, in load order.
StoredRecords == load_all_jsons_from_dir(disk.projects)

\* The commits fetch_all_commits persisted for (login, name): the pages of the
\* directory it named _safe_dir_name(login, name), or nothing without one.
PersistedCommits(login, name) ==
    IF FolderExists(disk.commits, _safe_dir_name(login, name))
    THEN DirRecords(disk.commits[1][_safe_dir_name(login, name)])
    ELSE <<>>

\* C11: the list normalize_projects_and_commits returns holds joinable records
\* only: each has a non-empty name and a non-empty owner.login, and each
\* carries a commits attribute.
C11_OnlyJoinableRecordsReturned ==
    f.pc = "returned" =>
        \A k \in 1..Len(f.ret[1]) :
            WellFormed(f.ret[1][k]) /\ f.ret[1][k].commits # None

\* C12: on return every well-formed record carries as commits the concatenation
\* of the page files of its repository's commits directory (empty without a
\* directory) and its other attributes are as stored.
C12_CommitsJoined ==
    f.pc = "returned" =>
        /\ Len(f.ret[1]) = Len(StoredRecords)
        /\ \A k \in 1..Len(StoredRecords) :
              WellFormed(StoredRecords[k]) =>
                 /\ f.ret[1][k].name = StoredRecords[k].name
                 /\ f.ret[1][k].owner = StoredRecords[k].owner
                 /\ f.ret[1][k].commits =
                       Some(PersistedCommits(Pair(StoredRecords[k])[1], Pair(StoredRecords[k])[2]))

\* C13: the directory name the normalizer looks up for (owner, repo) is the
\* name under which the commit collector persists that repository's pages.
C13_SameDirectoryName ==
    \A k \in 1..Len(f.lookups) :
        f.lookups[k].folder_name = _safe_dir_name(f.lookups[k].login, f.lookups[k].name)

(***************************************************************************)
(* main and run_pipeline (main.py).  The frame f holds the command line    *)
(* (the skip flags, whether GITHUB_TOKEN is set) and the position in       *)
(* run_pipeline: pc is "main", "step1" .. "step4", "return" (run_pipeline  *)
(* has returned to main) or "exited".  A stage is run as one call that     *)
(* returns or raises as the stage's own model does; ran logs the stages    *)
(* called with how each ended, skipped_missing the stages skipped while    *)
(* their output was not on disk.  disk says which outputs exist, net       *)
(* whether Elasticsearch answers.                                          *)
(***************************************************************************)
Stages == <<"fetch_all_projects", "fetch_all_commits", "normalize_projects_and_commits",
            "index_normalized_projects">>

EmptyTree == [d \in {} |-> EmptyDir]

\* DEFAULT_PROJECTS_DIR and DEFAULT_COMMITS_DIR (with DATA_DIR = "data"), which
\* are also the paths normalizer.py spells out, and another pair a caller passes.
RawProjectsDir == "data/raw/projects"
RawCommitsDir == "data/raw/commits"
ProjectsDirArgs == {RawProjectsDir, "mirror/projects"}
CommitsDirArgs == {RawCommitsDir, "mirror/commits"}

\* wrote_projects and wrote_commits are the directories the collectors were
\* given to write to, normalizer_read the directories the normalizer read.
PipelineFrame(token, skip) ==
    [pc |-> "main", token |-> token, skip |-> skip, ran |-> <<>>, skipped_missing |-> <<>>,
     logged |-> None, raised |-> None, exit |-> None,
     projects_dir |-> RawProjectsDir, commits_dir |-> RawCommitsDir,
     wrote_projects |-> None, wrote_commits |-> None, normalizer_read |-> None]

\* fetch_all_projects(client, output_dir=projects_dir)
CalledProjects(frame) == [frame EXCEPT !.wrote_projects = Some(frame.projects_dir)]

\* fetch_all_commits(client, projects_dir=projects_dir, commits_dir=commits_dir)
CalledCommits(frame) == [frame EXCEPT !.wrote_commits = Some(frame.commits_dir)]

\* normalize_projects_and_commits(): projects_dir = Path("data/raw/projects"),
\* commits_dir = Path("data/raw/commits")
CalledNormalizer(frame) ==
    [frame EXCEPT !.normalizer_read =
                     Some([projects_dir |-> RawProjectsDir, commits_dir |-> RawCommitsDir])]

Ran(frame, stage, outcome) ==
    [frame EXCEPT !.ran = Append(@, [stage |-> stage, outcome |-> outcome])]

SkippedMissing(frame, stage) ==
    [frame EXCEPT !.skipped_missing = Append(@, [stage |-> stage, ran |-> Len(frame.ran)])]

\* An exception leaves run_pipeline: main logs it and returns 1.
PipelineRaise(frame, e) == [frame EXCEPT !.pc = "exited", !.raised = Some(e), !.exit = Some(1)]

\* `if not token: return 1`, else run_pipeline is called.
MainStart ==
    /\ entry = "main"
    /\ f.pc = "main"
    /\ f' = IF ~f.token THEN [f EXCEPT !.pc = "exited", !.exit = Some(1)]
            ELSE [f EXCEPT !.pc = "step1"]
    /\ UNCHANGED <<entry, client, g, disk, net>>

\* Step 1.  fetch_all_projects creates the projects directory before its
\* first request, then returns or raises.
PipelineStep1 ==
    /\ entry = "main"
    /\ f.pc = "step1"
    /\ IF ~f.skip[1]
       THEN /\ disk' = [disk EXCEPT !.projects = IF @ = None THEN Some(EmptyDir) ELSE @]
            /\ \/ f' = [Ran(CalledProjects(f), Stages[1], "returned") EXCEPT !.pc = "step2"]
               \/ \E e \in {HTTPError(Resp(404, None, None)), ConnectionError, Exc("ValueError")} :
                     f' = PipelineRaise(Ran(CalledProjects(f), Stages[1], "raised"), e)
       ELSE /\ UNCHANGED disk
            /\ f' = IF disk.projects = None
                    THEN PipelineRaise(SkippedMissing(f, Stages[1]), Exc("FileNotFoundError"))
                    ELSE [f EXCEPT !.pc = "step2"]
    /\ UNCHANGED <<entry, client, g, net>>

\* Step 2.  fetch_all_commits creates a directory per repository, so a run
\* over no repository leaves the commits directory as it was.
PipelineStep2 ==
    /\ entry = "main"
    /\ f.pc = "step2"
    /\ IF ~f.skip[2]
       THEN IF disk.projects = None
            THEN /\ UNCHANGED disk
                 /\ f' = PipelineRaise(Ran(f, Stages[2], "raised"), Exc("FileNotFoundError"))
            ELSE /\ \/ UNCHANGED disk
                    \/ disk' = [disk EXCEPT !.commits = IF @ = None THEN Some(EmptyTree) ELSE @]
                 /\ \/ f' = [Ran(CalledCommits(f), Stages[2], "returned") EXCEPT !.pc = "step3"]
                    \/ \E e \in {HTTPError(Resp(404, None, None)), ConnectionError,
                                 Exc("JSONDecodeError")} :
                          f' = PipelineRaise(Ran(CalledCommits(f), Stages[2], "raised"), e)
       ELSE \* logger.info("Step 2: Skipping commits fetch")
            /\ UNCHANGED disk
            /\ f' = [(IF disk.commits = None THEN SkippedMissing(f, Stages[2]) ELSE f)
                        EXCEPT !.pc = "step3"]
    /\ UNCHANGED <<entry, client, g, net>>

\* Step 3.  normalize_projects_and_commits, then the normalized file is written.
PipelineStep3 ==
    /\ entry = "main"
    /\ f.pc = "step3"
    /\ IF ~f.skip[3]
       THEN \/ /\ disk' = [disk EXCEPT !.normalized = Some(Dump(<<>>))]
               /\ f' = [Ran(CalledNormalizer(f), Stages[3], "returned") EXCEPT !.pc = "step4"]
            \/ /\ UNCHANGED disk
               /\ f' = PipelineRaise(Ran(CalledNormalizer(f), Stages[3], "raised"),
                                      Exc("AttributeError"))
       ELSE /\ UNCHANGED disk
            /\ f' = IF disk.normalized = None
                    THEN PipelineRaise(SkippedMissing(f, Stages[3]), Exc("FileNotFoundError"))
                    ELSE [f EXCEPT !.pc = "step4"]
    /\ UNCHANGED <<entry, client, g, net>>

\* index_normalized_projects raises ConnectionError from ElasticsearchClient
\* when the ping fails; when it succeeds, ProjectIndexer.create_index reads
\* PROJECTS_INDEX_MAPPINGS, a name indexer.py never binds: NameError.
index_normalized_projects(es_up) ==
    IF ~es_up THEN Exc("ConnectionError") ELSE Exc("NameError")

\* Step 4.  `except Exception`: the failure is logged and run_pipeline goes on.
PipelineStep4 ==
    /\ entry = "main"
    /\ f.pc = "step4"
    /\ f' = IF ~f.skip[4]
            THEN [Ran(f, Stages[4], "raised") EXCEPT
                    !.pc = "return", !.logged = Some(index_normalized_projects(net.es_up))]
            ELSE [f EXCEPT !.pc = "return"]
    /\ UNCHANGED <<entry, client, g, disk, net>>

\* `return result`, the summary is printed, `return 0`.
MainReturn ==
    /\ entry = "main"
    /\ f.pc = "return"
    /\ f' = [f EXCEPT !.pc = "exited", !.exit = Some(0)]
    /\ UNCHANGED <<entry, client, g, disk, net>>

InitPipeline ==
    /\ entry = "main"
    /\ client = NoClient
    /\ g = IdleFrame
    /\ f \in {[PipelineFrame(token, skip) EXCEPT !.projects_dir = p, !.commits_dir = c] :
                token \in BOOLEAN, skip \in [1..4 -> BOOLEAN],
                p \in ProjectsDirArgs, c \in CommitsDirArgs}
    /\ disk \in [projects : {None, Some(EmptyDir)}, commits : {None, Some(EmptyTree)},
                 normalized : {None, Some(Dump(<<>>))}]
    /\ net \in [es_up : BOOLEAN]

NextPipeline ==
    \/ MainStart
    \/ PipelineStep1
    \/ PipelineStep2
    \/ PipelineStep3
    \/ PipelineStep4
    \/ MainReturn

SpecPipeline == InitPipeline /\ [][NextPipeline]_vars

(***************************************************************************)
(* Properties of main and run_pipeline, checked under SpecPipeline.        *)
(***************************************************************************)
StageFailed == \E k \in 1..Len(f.ran) : f.ran[k].outcome = "raised"

\* C14: once a stage is skipped while the output it would have produced is
\* not on disk, run_pipeline has raised and no stage has run since; this
\* holds for the commit fetch as for the project fetch and the normalization.
C14_SkippedStageNeedsOutput ==
    \A k \in 1..Len(f.skipped_missing) :
        /\ f.pc = "exited" /\ f.raised # None
        /\ Len(f.ran) = f.skipped_missing[k].ran

\* C15: main exits non-zero exactly when something unrecoverable happened:
\* no token to run with, a skipped stage without its prerequisite, a stage
\* that raised (a fetch, the normalization, the indexing stage failing
\* outright).
C15_ExitCodeReflectsFailure ==
    f.pc = "exited" =>
        (f.exit[1] # 0 <=> (~f.token \/ f.skipped_missing # <<>> \/ StageFailed))

(***************************************************************************)
(* The indexing sink: ProjectIndexer.index_projects (indexer.py) over      *)
(* ElasticsearchClient.bulk_index and refresh_index (es_client.py).        *)
(*                                                                         *)
(* A document is its "id" field (None when the key is absent) and a body   *)
(* standing for the rest.  Elasticsearch (net) is an opaque store: docs is *)
(* the set of stored documents, each under its _id; auto counts the        *)
(* identifiers it has generated; rejects is the set of bodies it refuses   *)
(* (a mapping conflict: a matter of the document, the same on every        *)
(* submission).  Any call to it may fail as a whole (connection lost).     *)
(***************************************************************************)
MaxDocs == 3            \* documents in the list handed to index_projects

ChunkSizes == {1, 2}
Ids == {1, 2}
Bodies == {"a", "b"}

Doc(id, body) == [id |-> id, body |-> body]
Docs == {Doc(id, body) : id \in {None} \cup {Some(n) : n \in Ids}, body \in Bodies}

\* The action bulk_index builds for one document.
BuildActionWithoutId(index_name, doc, id_field) ==
    [_index |-> index_name, _source |-> doc, _id |-> None]

BuildAction(index_name, doc, id_field) ==
    [_index |-> index_name, _source |-> doc,
     _id |-> IF id_field # None /\ doc[id_field[1]] # None THEN doc[id_field[1]] ELSE None]

\* Elasticsearch takes one index action: a refused document is left out, an
\* action with an _id replaces the document stored under it, one without
\* gets a fresh identifier.
EsIndex(es, action) ==
    IF action._source.body \in es.rejects THEN es
    ELSE IF action._id # None
    THEN [es EXCEPT !.docs = {d \in @ : d._id # <<"id", action._id[1]>>}
                                 \cup {[_id |-> <<"id", action._id[1]>>, _source |-> action._source]}]
    ELSE [es EXCEPT !.docs = @ \cup {[_id |-> <<"auto", es.auto>>, _source |-> action._source]},
                    !.auto = @ + 1]

RECURSIVE EsBulk(_, _)
EsBulk(es, actions) ==
    IF actions = <<>> THEN es ELSE EsBulk(EsIndex(es, Head(actions)), Tail(actions))

\* The per-item results of a bulk request: TRUE for an indexed document.
ItemResults(es, actions) == [k \in 1..Len(actions) |-> actions[k]._source.body \notin es.rejects]

IndexerFrame(projects, chunk_size) ==
    [pc |-> "begin", run |-> 1, projects |-> projects, chunk_size |-> chunk_size,
     actions |-> <<>>, sent |-> 0, success |-> 0, errors |-> <<>>, ops |-> <<>>,
     ret |-> None, exc |-> None, first |-> None]

\* `if not projects: return 0, 0`
IndexNothing ==
    /\ entry = "index_projects"
    /\ f.pc = "begin"
    /\ f.projects = <<>>
    /\ f' = CollectorReturn(f, <<0, 0>>)
    /\ UNCHANGED <<entry, client, g, disk, net>>

\* bulk_index builds the list of actions.
BulkBuild ==
    /\ entry = "index_projects"
    /\ f.pc = "begin"
    /\ f.projects # <<>>
    /\ f' = [f EXCEPT !.pc = "bulk",
                      !.actions = [k \in 1..Len(f.projects) |->
                                      BuildAction("github_projects", f.projects[k], Some("id"))]]
    /\ UNCHANGED <<entry, client, g, disk, net>>

\* helpers.bulk consumes the results of one chunk; raise_on_error decides
\* whether refused documents raise BulkIndexError at the end of the chunk.
ChunkDone(frame, chunk, results, raise_on_error) ==
    LET failed == SelectSeq([k \in 1..Len(chunk) |-> [action |-> chunk[k], ok |-> results[k]]],
                            LAMBDA r : ~r.ok)
        fr == [frame EXCEPT !.sent = @ + Len(chunk),
                            !.success = @ + (Len(chunk) - Len(failed)),
                            !.errors = @ \o [k \in 1..Len(failed) |-> failed[k].action],
                            !.ops = Append(@, [op |-> "bulk", actions |-> chunk])]
    IN  IF raise_on_error /\ failed # <<>> THEN CollectorRaise(fr, Exc("BulkIndexError"))
        ELSE IF fr.sent = Len(fr.actions) THEN [fr EXCEPT !.pc = "refresh"]
        ELSE fr

BulkRaisesOnError(frame, chunk, results) == ChunkDone(frame, chunk, results, TRUE)

\* bulk(self.client, actions, chunk_size=chunk_size, raise_on_error=False)
BulkChunkDone(frame, chunk, results) == ChunkDone(frame, chunk, results, FALSE)

NextChunk == SubSeq(f.actions, f.sent + 1, Min(f.sent + f.chunk_size, Len(f.actions)))

BulkChunk ==
    /\ entry = "index_projects"
    /\ f.pc = "bulk"
    /\ net' = EsBulk(net, NextChunk)
    /\ f' = BulkChunkDone(f, NextChunk, ItemResults(net, NextChunk))
    /\ UNCHANGED <<entry, client, g, disk>>

\* The bulk request itself fails: helpers.bulk lets the exception through.
BulkChunkFails ==
    /\ entry = "index_projects"
    /\ f.pc = "bulk"
    /\ f' = CollectorRaise(f, ConnectionError)
    /\ UNCHANGED <<entry, client, g, disk, net>>

\* self.es_client.refresh_index(self.index_name), then `return success, errors`
RefreshSkipped(frame) == CollectorReturn(frame, <<frame.success, Len(frame.errors)>>)

RefreshAndReturn(frame) ==
    CollectorReturn([frame EXCEPT !.ops = Append(@, [op |-> "refresh", actions |-> <<>>])],
                    <<frame.success, Len(frame.errors)>>)

Refresh ==
    /\ entry = "index_projects"
    /\ f.pc = "refresh"
    /\ f' = RefreshAndReturn(f)
    /\ UNCHANGED <<entry, client, g, disk, net>>

RefreshFails ==
    /\ entry = "index_projects"
    /\ f.pc = "refresh"
    /\ f' = CollectorRaise(f, ConnectionError)
    /\ UNCHANGED <<entry, client, g, disk, net>>

\* The same list is indexed once more (a re-run of the indexing stage).
IndexAgain ==
    /\ entry = "index_projects"
    /\ f.pc = "returned" /\ f.run = 1
    /\ f' = [IndexerFrame(f.projects, f.chunk_size) EXCEPT !.run = 2, !.first = Some(net.docs)]
    /\ UNCHANGED <<entry, client, g, disk, net>>

InitIndex ==
    /\ entry = "index_projects"
    /\ client = NoClient
    /\ g = IdleFrame
    /\ f \in {IndexerFrame(projects, chunk_size) :
                projects \in SeqsUpTo(Docs, MaxDocs), chunk_size \in ChunkSizes}
    /\ disk = NoDisk
    /\ net \in [docs : {{}}, auto : {0}, rejects : SUBSET Bodies]

NextIndex ==
    \/ IndexNothing
    \/ BulkBuild
    \/ BulkChunk
    \/ BulkChunkFails
    \/ Refresh
    \/ RefreshFails
    \/ IndexAgain

SpecIndex == InitIndex /\ [][NextIndex]_vars

(***************************************************************************)
(* Properties of the indexing sink, checked under SpecIndex.               *)
(***************************************************************************)
\* The actions submitted by the bulk requests of the running call, in order.
RECURSIVE Submitted(_)
Submitted(ops) ==
    IF ops = <<>> THEN <<>> ELSE Submitted(SubSeq(ops, 1, Len(ops) - 1)) \o Last(ops).actions

AllCarryId == \A k \in 1..Len(f.projects) : f.projects[k].id # None

Accepted(doc) == doc.body \notin net.rejects

CountOf(seq, Test(_)) == Cardinality({k \in 1..Len(seq) : Test(seq[k])})

\* C16: when every document carries the id field, indexing the list a second
\* time leaves in the index the documents the first indexing left, one per
\* identifier; and a submitted action targets the value of its document's id
\* field whenever the document has one.
C16_ReindexingIsIdempotent ==
    /\ \A k \in 1..Len(Submitted(f.ops)) :
          LET action == Submitted(f.ops)[k] IN
          action._source.id # None => action._id = action._source.id
    /\ (f.run = 2 /\ f.pc = "returned" /\ AllCarryId) =>
          /\ net.docs = f.first[1]
          /\ \A d1, d2 \in net.docs : d1._id = d2._id => d1 = d2
          /\ {d._id : d \in net.docs} =
                {<<"id", f.projects[k].id[1]>> : k \in {j \in 1..Len(f.projects) : Accepted(f.projects[j])}}

C16_Witness ==
    /\ f.run = 2 /\ f.pc = "returned" /\ AllCarryId
    /\ Len(f.projects) = MaxDocs
    /\ \E j, k \in 1..Len(f.projects) : j # k /\ f.projects[j].id = f.projects[k].id
                                              /\ f.projects[j].body # f.projects[k].body
    /\ Cardinality(net.docs) = 2

\* C17: whatever documents Elasticsearch refuses, bulk_index raises only when
\* a request fails as a whole; once it has returned, every document was
\* submitted exactly once, in order, the refused ones are the errors and the
\* others the successes, so the two counts add up to the number of documents.
C17_PartialFailureCounted ==
    /\ f.pc = "raised" => f.exc[1].type = "ConnectionError"
    /\ f.pc \in {"refresh", "returned"} /\ f.projects # <<>> =>
          /\ [k \in 1..Len(Submitted(f.ops)) |-> Submitted(f.ops)[k]._source] = f.projects
          /\ f.success = CountOf(f.projects, Accepted)
          /\ Len(f.errors) = CountOf(f.projects, LAMBDA doc : ~Accepted(doc))
          /\ f.success + Len(f.errors) = Len(f.projects)
    /\ f.pc = "returned" /\ f.projects # <<>> => f.ret[1] = <<f.success, Len(f.errors)>>

C17_Witness ==
    /\ f.pc = "returned" /\ f.run = 1
    /\ Len(f.projects) = MaxDocs /\ f.chunk_size = 1
    /\ ~Accepted(f.projects[1]) /\ Accepted(f.projects[2]) /\ ~Accepted(f.projects[3])
    /\ f.ret[1] = <<1, 2>>

\* C18 as stated: every normal return of index_projects, for every document
\* list, comes after a refresh issued after the last bulk request.
C18_Original ==
    f.pc = "returned" => (f.ops # <<>> /\ Last(f.ops).op = "refresh")

\* C18, amended: a normal return on a non-empty list comes after exactly one
\* refresh, issued after the last bulk request; a normal return on an empty
\* list comes with no request at all and the counts (0, 0).
C18_RefreshBeforeReturn ==
    f.pc = "returned" =>
        IF f.projects # <<>>
        THEN /\ Len(f.ops) >= 2
             /\ Last(f.ops).op = "refresh"
             /\ \A k \in 1..(Len(f.ops) - 1) : f.ops[k].op = "bulk"
        ELSE f.ops = <<>> /\ f.ret[1] = <<0, 0>>

C18_Witness ==
    /\ f.pc = "returned"
    /\ Len(f.projects) = MaxDocs /\ f.chunk_size = 2
    /\ Len(f.ops) = 3 /\ f.ops[3].op = "refresh"

(***************************************************************************)
(* Properties of a collection run under abort and of its request order,    *)
(* checked under Spec.                                                     *)
(***************************************************************************)
CompletePage(file) == file.kind = "json" /\ file.value.type = "list"

\* The page files of the store the running collector writes to.
CollectorFiles ==
    IF entry = "fetch_all_projects"
    THEN IF disk.projects = None THEN {}
         ELSE {disk.projects[1][n] : n \in DOMAIN disk.projects[1]}
    ELSE IF disk.commits = None THEN {}
         ELSE UNION {{disk.commits[1][d][n] : n \in DOMAIN disk.commits[1][d]} :
                     d \in DOMAIN disk.commits[1]}

\* C19: at every point of a collection run, an aborted one included, each
\* page file of the store being written holds a complete JSON array.
C19_PageFilesAlwaysComplete == \A file \in CollectorFiles : CompletePage(file)

\* The position in unique_repos of the repository an endpoint belongs to.
RepoIndex(endpoint) ==
    CHOOSE i \in 1..Len(f.unique_repos) :
        CommitsEndpoint(f.unique_repos[i][1], f.unique_repos[i][2]) = endpoint

\* The get calls of a commit collection go repository by repository, in the
\* order of unique_repos, and page by page from 1 within a repository.
CallsInOrder ==
    entry = "fetch_all_commits" /\ f.calls # <<>> =>
        /\ f.calls[1].page = 1
        /\ \A k \in 1..(Len(f.calls) - 1) :
              LET a == f.calls[k]
                  b == f.calls[k + 1]
              IN  \/ RepoIndex(b.endpoint) = RepoIndex(a.endpoint) /\ b.page = a.page + 1
                  \/ RepoIndex(b.endpoint) > RepoIndex(a.endpoint) /\ b.page = 1

\* A step that issues a request issues one, from inside the get call the
\* collector is waiting in (the call for the last page asked), and takes the
\* request's outcome before it ends; a step that starts a get call finds no
\* call running and issues nothing itself.
C20_Step ==
    /\ net'.requests # net.requests =>
          /\ net'.requests = net.requests + 1
          /\ f.pc = "wait" /\ g.pc = "attempt"
          /\ f' = f
          /\ Len(g'.outcomes) = Len(g.outcomes) + 1
    /\ f'.calls # f.calls =>
          /\ g.pc = "idle" /\ g'.pc = "attempt"
          /\ net' = net
          /\ f'.calls = Append(f.calls, Last(f'.calls))

\* C20: at most one GitHub request is in flight at any time, and all the
\* requests for one repository's commit pages, in increasing page order with
\* each page's retries, are issued before the first request for the next
\* repository.
C20_StrictlySequential == []CallsInOrder /\ [][C20_Step]_vars

C20_Witness ==
    /\ entry = "fetch_all_commits" /\ f.pc = "returned"
    /\ Len(f.unique_repos) = 2
    /\ \E k \in 1..Len(f.calls) : f.calls[k].page = 2 /\ RepoIndex(f.calls[k].endpoint) = 1
    /\ RepoIndex(Last(f.calls).endpoint) = 2
    /\ net.requests > Len(f.calls)

(***************************************************************************)
(* The page store round trip: the collectors' page write                   *)
(* (open(page_file, "w") / json.dump, projects_fetcher.py:60-64) applied   *)
(* to pages 1..N of an empty directory, then the two loaders applied to    *)
(* the directory (_load_projects_from_dir of commits_fetcher.py,           *)
(* load_all_jsons_from_dir of normalizer.py).                              *)
(***************************************************************************)
MaxStorePages == 11     \* pages written into one directory

\* Page k of a run whose pages hold `width` records each.
StorePage(k, width) == [j \in 1..width |-> <<RecA, RecB, RecNoOwner>>[(k % 3) + 1]]

StoreFrame(pages) ==
    [pc |-> "write", pages |-> pages, page |-> 1, by_collector |-> None, by_normalizer |-> None]

\* page_file = output_path / f"page_{page}.json"; json.dump(projects, f, indent=2)
StoreWritePage ==
    /\ entry = "page_store"
    /\ f.pc = "write"
    /\ f.page <= Len(f.pages)
    /\ disk' = [disk EXCEPT !.projects = Some(WriteFile(@[1], f.page, Dump(f.pages[f.page])))]
    /\ f' = [f EXCEPT !.page = @ + 1]
    /\ UNCHANGED <<entry, client, g, net>>

\* _load_projects_from_dir(projects_path) on the directory written.
StoreLoadCollector ==
    /\ entry = "page_store"
    /\ f.pc = "write"
    /\ f.page > Len(f.pages)
    /\ f.by_collector = None
    /\ f' = [f EXCEPT !.by_collector = Some(_load_projects_from_dir(disk.projects[1]))]
    /\ UNCHANGED <<entry, client, g, disk, net>>

\* load_all_jsons_from_dir(projects_dir) on the directory written.
StoreLoadNormalizer ==
    /\ entry = "page_store"
    /\ f.pc = "write"
    /\ f.page > Len(f.pages)
    /\ f.by_normalizer = None
    /\ f' = [f EXCEPT !.by_normalizer = Some(load_all_jsons_from_dir(disk.projects))]
    /\ UNCHANGED <<entry, client, g, disk, net>>

InitStore ==
    /\ entry = "page_store"
    /\ client = NoClient
    /\ g = IdleFrame
    /\ f \in {StoreFrame([k \in 1..n |-> StorePage(k, width)]) :
                n \in 0..MaxStorePages, width \in 1..PerPage}
    /\ disk = [projects |-> Some(EmptyDir), commits |-> None]
    /\ net = NoNet

NextStore ==
    \/ StoreWritePage
    \/ StoreLoadCollector
    \/ StoreLoadNormalizer

SpecStore == InitStore /\ [][NextStore]_vars

(***************************************************************************)
(* Properties of the page store, checked under SpecStore.                  *)
(***************************************************************************)
RECURSIVE Concat(_)
Concat(pages) == IF pages = <<>> THEN <<>> ELSE Head(pages) \o Concat(Tail(pages))

Occurrences(seq, x) == Cardinality({k \in 1..Len(seq) : seq[k] = x})

SameMultiset(a, b) ==
    /\ Len(a) = Len(b)
    /\ \A x \in Range(a) \cup Range(b) : Occurrences(a, x) = Occurrences(b, x)

\* C21: the N pages written into an empty directory load back, with either
\* loader, as a list of the length and with the multiset of records of the
\* concatenation of the pages.
C21_RoundTrip ==
    /\ f.by_collector # None =>
          f.by_collector[1].ok /\ SameMultiset(f.by_collector[1].records, Concat(f.pages))
    /\ f.by_normalizer # None => SameMultiset(f.by_normalizer[1], Concat(f.pages))

C21_Witness ==
    /\ f.by_collector # None /\ f.by_normalizer # None
    /\ Len(f.pages) = 3 /\ Len(f.pages[1]) = PerPage
    /\ Len(f.by_normalizer[1]) = 3 * PerPage

\* C29: the pages one run wrote load back in fetch order, page 1, 2, 3, ...,
\* for any number of pages, ten or more included.
C29_LoadedInFetchOrder ==
    /\ f.by_collector # None => f.by_collector[1].records = Concat(f.pages)
    /\ f.by_normalizer # None => f.by_normalizer[1] = Concat(f.pages)

(***************************************************************************)
(* Checkpointing of a collection run, checked under Spec.                  *)
(***************************************************************************)
\* Page q of E is on disk as a complete, full page.
FullPageOnDisk(E, q) ==
    /\ q \in DOMAIN DirOf(E)
    /\ CompletePage(DirOf(E)[q])
    /\ Len(DirOf(E)[q].value.items) = PerPage

\* Every page before a requested page is on disk.
EarlierPagesOnDisk ==
    \A j \in DOMAIN f.calls :
        \A q \in 1..(f.calls[j].page - 1) : FullPageOnDisk(f.calls[j].endpoint, q)

\* The non-empty page client.get returned is in its page file after the step.
PageInItsFile ==
    LET file == JsonFile(JsonList(g.ret[1].items)) IN
    IF entry = "fetch_all_projects"
    THEN /\ disk'.projects # None
         /\ f.page \in DOMAIN disk'.projects[1]
         /\ disk'.projects[1][f.page] = file
    ELSE /\ disk'.commits # None
         /\ RepoDir \in DOMAIN disk'.commits[1]
         /\ f.page \in DOMAIN disk'.commits[1][RepoDir]
         /\ disk'.commits[1][RepoDir][f.page] = file

\* A step that takes a non-empty page either leaves it in its file or ends
\* the run by an exception; a run that has raised asks for nothing more.
C22_Step ==
    /\ (f.pc = "wait" /\ g.pc = "returned" /\ g.ret[1].type = "list" /\ g.ret[1].items # <<>>)
          => (PageInItsFile \/ f'.pc = "raised")
    /\ f.pc = "raised" => (f'.calls = f.calls /\ net'.requests = net.requests)

\* C22: in both collectors page N is in its file before page N+1 is asked for,
\* and a failed write ends the collection with no later request; so a run
\* that fails while fetching page N+1 has pages 1..N of that entity on disk.
C22_PersistedBeforeNextRequest == []EarlierPagesOnDisk /\ [][C22_Step]_vars

C22_Witness ==
    /\ f.pc = "raised" /\ f.exc[1].type = "HTTPError"
    /\ f.calls # <<>> /\ Last(f.calls).page = 2
    /\ FullPageOnDisk(Last(f.calls).endpoint, 1)

(***************************************************************************)
(* Properties of the stage hand-over in run_pipeline, checked under        *)
(* SpecPipeline.                                                           *)
(***************************************************************************)
\* C23: whatever projects_dir and commits_dir run_pipeline is given, the
\* normalization reads project pages from the directory the project
\* collection writes to and commit pages from the directory the commit
\* collection writes to.
C23_NormalizerReadsCollectorsDirs ==
    f.normalizer_read # None =>
        /\ f.normalizer_read[1].projects_dir = f.projects_dir
        /\ f.normalizer_read[1].commits_dir = f.commits_dir
        /\ f.wrote_projects # None => f.normalizer_read[1].projects_dir = f.wrote_projects[1]
        /\ f.wrote_commits # None => f.normalizer_read[1].commits_dir = f.wrote_commits[1]

\* C26: when skip_normalization is set and the normalized file does not
\* exist, run_pipeline raises before any stage has been called, hence before
\* any GitHub request and any file write.
C26_SkipFailureBeforeAnyWork ==
    \A k \in 1..Len(f.skipped_missing) :
        f.skipped_missing[k].stage = Stages[3] =>
            /\ f.skipped_missing[k].ran = 0
            /\ f.wrote_projects = None /\ f.wrote_commits = None

(***************************************************************************)
(* Collection runs that meet no failure, into directories an earlier run   *)
(* left behind.  fetch_all_projects starts on the page files a completed   *)
(* earlier run wrote into the same output_dir; fetch_all_commits starts on *)
(* a projects directory whose repositories have names that need            *)
(* sanitising.  The steps are those of the collectors above.               *)
(***************************************************************************)
RecUnderscore == Project(JStr(<<"_">>), JOwner(JStr(<<"u">>)))

SanitisedRecords == {RecUnsafe, RecUnderscore, RecA}

InitRerun ==
    /\ entry \in {"fetch_all_projects", "fetch_all_commits"}
    /\ client \in [max_retries : {0}, initial_backoff : {1}, max_backoff : MaxBackoffs]
    /\ g = IdleFrame
    /\ f = BeginFrame
    /\ disk \in IF entry = "fetch_all_projects"
                THEN {[projects |-> Some(WrittenDir(records)), commits |-> None] :
                        records \in SeqsUpTo(ProjectRecords, MaxProjects)}
                ELSE {[projects |-> Some(WrittenDir(records)), commits |-> None] :
                        records \in SeqsUpTo(SanitisedRecords, MaxProjects)}
    /\ net = [requests |-> 0, faults |-> 0]

NextRerun ==
    \/ ProjectsBegin
    \/ CollectorCallGet
    \/ f.pc = "wait" /\ \E body \in ServerBodies : GetOk(body)
    \/ ProjectsNonList
    \/ ProjectsEmptyPage
    \/ ProjectsSavePage
    \/ CommitsBegin
    \/ CommitsNextRepo
    \/ CommitsDone
    \/ CommitsNonList
    \/ CommitsEmptyPage
    \/ CommitsSavePage

SpecRerun == InitRerun /\ [][NextRerun]_vars

\* C24: after a completed fetch_all_projects run into a directory earlier runs
\* wrote to, loading the directory yields exactly the records the run
\* returned: no page file of an earlier run survives.
C24_OnlyLatestRunOnDisk ==
    (entry = "fetch_all_projects" /\ f.pc = "returned") =>
        LET loaded == _load_projects_from_dir(disk.projects[1]) IN
        /\ loaded.ok
        /\ Len(loaded.records) = Len(f.ret[1])
        /\ SameMultiset(loaded.records, f.ret[1])

\* C28: within one fetch_all_commits run, page files of two distinct
\* Repository Keys are never written into the same commits directory.
C28_DistinctKeysDistinctDirs ==
    entry = "fetch_all_commits" =>
        \A a, b \in 1..Len(f.writes) :
            LET ea == f.writes[a].endpoint
                eb == f.writes[b].endpoint
            IN  RepoKey(ea[2], ea[3]) # RepoKey(eb[2], eb[3]) =>
                    _safe_dir_name(ea[2], ea[3]) # _safe_dir_name(eb[2], eb[3])

(***************************************************************************)
(* The exception of a get call that gives up, checked under SpecGet.       *)
(***************************************************************************)
\* The error the attempt with outcome o stands for.
FinalError(o) ==
    CASE o.kind = "http" -> HTTPError(o.response[1])
      [] o.kind = "badjson" -> JSONDecodeError
      [] o.kind = "transport" -> ConnectionError
      [] OTHER -> RequestException

\* C25 as stated: the exception is the HTTP error of the last response when
\* the final attempt produced a response, the transport exception when it
\* failed at transport level.
C25_Original ==
    (entry = "get" /\ g.pc = "raised") =>
        LET o == Last(g.outcomes) IN
        /\ o.response # None => g.exc[1] = HTTPError(o.response[1])
        /\ o.response = None => g.exc[1] = ConnectionError

\* C25: when get gives up, the exception it raises is the error of its final
\* attempt (the HTTP error of a non-ok last response, the decoding error of an
\* ok last response whose body is no JSON, the transport exception), never
\* the error of an earlier attempt.
C25_FinalAttemptDescribed ==
    (entry = "get" /\ g.pc = "raised") =>
        /\ g.outcomes # <<>>
        /\ g.exc[1] = FinalError(Last(g.outcomes))

\* get gave up on a retryable response after an earlier attempt failed at
\* transport level.
C25_Witness ==
    /\ entry = "get" /\ g.pc = "raised"
    /\ Len(g.outcomes) >= 2
    /\ g.outcomes[1].kind = "transport"
    /\ Last(g.outcomes).kind = "http"
    /\ g.last_error # None /\ g.last_response # None
    /\ g.exc[1] = HTTPError(Last(g.outcomes).response[1])

(***************************************************************************)
(* Malformed records and the two loaders, checked under SpecNormalize.     *)
(***************************************************************************)
\* The record the normalization loop is at has no Repository Key.
Malformed(project) == _extract_owner_repo(project) = None

\* C27: no malformed project record (name or login missing or empty, owner
\* missing, null or not an object) makes the normalization raise: the record
\* is passed over, gets no commits from any folder, and the loop goes on.
C27_MalformedRecordNeverRaises ==
    entry = "normalize_projects_and_commits" =>
        /\ f.pc = "raised" => ~Malformed(f.projects_list[f.i])
        /\ \A k \in 1..Len(f.projects_list) :
              (k < f.i /\ Malformed(f.projects_list[k])) => f.projects_list[k].commits = None


\* C30: on the same projects directory content the commit collector's loader
\* and the normalizer's loader produce the same list of project records,
\* whatever the files hold.
C30_LoadersAgree ==
    (entry = "normalize_projects_and_commits" /\ f.pc # "begin" /\ disk.projects # None) =>
        LET collected == _load_projects_from_dir(disk.projects[1]) IN
        /\ collected.ok
        /\ collected.records = load_all_jsons_from_dir(disk.projects)

=============================================================================
